---- MODULE Spec2Model ----
(***************************************************************************)
(* Beurer BF 700 scale integration: the five sensor entities of one device *)
(* address, the restore of an entity's last state when the host adds it,   *)
(* each entity's async_update session against the scale (connect,          *)
(* start_notify, write Sync, sleep, stop_notify, disconnect) and the       *)
(* notification handler that decodes a frame into the entity's stored      *)
(* measurement.                                                            *)
(*                                                                         *)
(* Spec is the integration under the host's polling; FairSpec adds the     *)
(* scheduling of the event loop and of the host; CodecSpec runs the        *)
(* handler of a waiting entity over a range of buffers.                    *)
(*                                                                         *)
(* Numbers: a Python float n / d is kept as the exact quotient             *)
(* [num |-> n, den |-> d]; Python's None is the empty tuple <<>> and a     *)
(* present value v is the one-element tuple <<v>>.                         *)
(***************************************************************************)
EXTENDS Integers, Sequences, FiniteSets, TLC

VARIABLES
    now,                    \* wall clock read by datetime.now(), in poll periods
    ble_device,             \* what async_ble_device_from_address returns for the address
    due,                    \* entities whose async_update the host has yet to start, in order
    pc,                     \* per entity: "new" until the host has added it, then the
                            \* position of its async_update coroutine
    exc,                    \* per entity: the exception in flight inside the try statement:
                            \* "none", "raised" (by a transport call, class not yet
                            \* looked at) or "cancelled" (the sleep was cancelled)
    connected,              \* per entity: its BleakClient holds an open connection
    notifying,              \* per entity: state of its handler's subscription
    calls,                  \* per entity: transport calls of its current or last session
    rx,                     \* per entity: notifications handled during the sleep of line 141
    _measurement_data,      \* per entity: self._measurement_data
    _last_measurement_time, \* per entity: self._last_measurement_time
    _attr_native_value,     \* per entity: self._attr_native_value
    ha_state,               \* per entity: state last written by async_write_ha_state
    escaped,                \* per entity: the class of the exception that has just left
                            \* its async_update, or "none"
    sessions,               \* sessions started so far
    tick_sessions,          \* sessions started since the last poll tick
    last_states,            \* per entity: what async_get_last_state returns for it
    notification            \* the buffer the scale is about to send to an entity's
                            \* handler, where a run fixes it from the start (CodecSpec)

vars == <<now, ble_device, due, pc, exc, connected, notifying, calls, rx,
          _measurement_data, _last_measurement_time, _attr_native_value,
          ha_state, escaped, sessions, tick_sessions, last_states, notification>>

\* what a run is given from the start
given == <<last_states, notification>>

stored == <<_measurement_data, _last_measurement_time, _attr_native_value, ha_state>>

\* what one entity stores and reports
StoredOf(e) == <<_measurement_data[e], _last_measurement_time[e],
                 _attr_native_value[e], ha_state[e]>>

----------------------------------------------------------------------------
(* Bounds of the model *)

\* poll ticks of a run
MaxTicks == 3

\* Of the five entities async_setup_entry creates, all polled by the host, the
\* first MaxPolled in the order of lines 47-56 are followed through their
\* life: the host adds them and polls them. The sessions of the entities share
\* no state, and MaxPolled is how many of them run side by side.
MaxPolled == 2

\* sessions of a run, all entities together
MaxSessions == 4

----------------------------------------------------------------------------
(* Constants of the program *)

CMD_INIT == 246

CMD_SYNC == 249

FRAME_MARKER == 247

MIN_FRAME_LEN == 20

ABSENT_BYTE == 255

WRITE_CHAR_UUID == "0000fff1-0000-1000-8000-00805f9b34fb"

NOTIFY_CHAR_UUID == "0000fff4-0000-1000-8000-00805f9b34fb"

None == <<>>

Some(v) == <<v>>

\* The entities async_setup_entry creates for one address, by entity_description.key.
Entities == {"weight", "body_fat", "body_water", "muscle_mass", "bone_mass"}

\* no exception has just left an async_update
NoneEscaped == [e \in Entities |-> "none"]

\* The classes of exception an await of the session can end with: the three
\* the except clauses name, and asyncio.CancelledError, a BaseException that
\* none of them matches. Which of the three named classes an error has is
\* looked at by the except clauses only, so it is drawn there.
Raised == {"BleakError", "TimeoutError", "Exception", "CancelledError"}

\* The classes the exception in flight can be of: any class when a transport
\* call raised it, CancelledError when it ended asyncio.sleep.
InFlight(x) ==
    IF x = "raised" THEN Raised
    ELSE IF x = "cancelled" THEN {"CancelledError"}
    ELSE {}

\* The order in which async_setup_entry hands them to async_add_entities.
EntityOrder == <<"weight", "body_fat", "body_water", "muscle_mass", "bone_mass">>

\* Positions at which the coroutine is inside a session (BleakClient in use).
InSession == {"connecting", "start_notify", "write_gatt_char", "sleep",
              "stop_notify", "aexit"}

\* Positions at which the coroutine is suspended inside the async with body.
InBody == {"start_notify", "write_gatt_char", "sleep", "stop_notify", "aexit"}

----------------------------------------------------------------------------
(* Frames the scale is made to send *)

Zeros(n) == [i \in 1..n |-> 0]

\* F7 00 B4 16 FF 32 FF FF + 12 zero bytes
FrameA == <<247, 0, 180, 22, 255, 50, 255, 255>> \o Zeros(12)

\* every field present: the frame of an earlier measurement
FrameB == <<247, 0, 16, 39, 200, 55, 40, 12>> \o Zeros(12)

\* right marker, too short
FrameShort == <<247, 0, 180, 22, 200, 50, 40>>

\* 20 bytes, wrong first byte
FrameBadHeader == <<246, 0, 16, 39, 200, 55, 40, 12>> \o Zeros(12)

\* what the scale sends to a polled entity: a frame the handler decodes, with
\* fields marked absent, and two buffers it rejects
Frames == {FrameA, FrameShort, FrameBadHeader}

----------------------------------------------------------------------------
(* Frame decoding: _notification_handler, lines 155-167 *)

\* data[i] of a Python bytearray (indexed from 0)
Byte(data, i) == data[i + 1]

\* the guard with its length test off by one: 19 bytes pass
AcceptsFrom19(data) == ~(Len(data) < MIN_FRAME_LEN - 1 \/ Byte(data, 0) # FRAME_MARKER)

\* the guard without its test of the first byte
AcceptsAnyHeader(data) == ~(Len(data) < MIN_FRAME_LEN)

\* the guard of line 155, negated: the handler goes on to decode
Accepts(data) == ~(Len(data) < MIN_FRAME_LEN \/ Byte(data, 0) # FRAME_MARKER)

\* int.from_bytes(data[2:4], "big")
FromBytesBig(data) == 256 * Byte(data, 2) + Byte(data, 3)

\* int.from_bytes(data[2:4], "little")
FromBytesLittle(data) == Byte(data, 2) + 256 * Byte(data, 3)

\* data[i] / 10, whatever the byte
PercentOfAnyByte(data, i) == Some([num |-> Byte(data, i), den |-> 10])

\* data[i] / 10 if data[i] != 0xFF else None
Percent(data, i) ==
    IF Byte(data, i) # ABSENT_BYTE
    THEN Some([num |-> Byte(data, i), den |-> 10])
    ELSE None

\* the dict with the offsets of body fat and body water exchanged
DecodeWaterBeforeFat(data) ==
    [weight      |-> Some([num |-> FromBytesLittle(data), den |-> 100]),
     body_fat    |-> Percent(data, 5),
     body_water  |-> Percent(data, 4),
     muscle_mass |-> Percent(data, 6),
     bone_mass   |-> Percent(data, 7)]

\* the dict of lines 161-167
Decode(data) ==
    [weight      |-> Some([num |-> FromBytesLittle(data), den |-> 100]),
     body_fat    |-> Percent(data, 4),
     body_water  |-> Percent(data, 5),
     muscle_mass |-> Percent(data, 6),
     bone_mass   |-> Percent(data, 7)]

\* _update_from_measurement of the entity's class sets the value and writes the
\* state: BeurerWeightSensor (196) when the dict holds "weight", the four
\* percentage sensors (217, 238, 259, 280) when their field is not None
Writes(e, md) == IF e = "weight" THEN "weight" \in DOMAIN md ELSE md[e] # None

\* the state async_write_ha_state records: the native value and the
\* last_measured attribute of extra_state_attributes
StateOf(value, time) == Some([state |-> value, last_measured |-> time])

----------------------------------------------------------------------------
(* Transport calls *)

Call(name, char, data, ok) ==
    [call |-> name, char |-> char, data |-> data, response |-> FALSE, ok |-> ok]

\* rx: what the handler has done during the current sleep of line 141
NoRx == "none"

\* rx after the handler has returned at line 156
RxRejected(r) == IF r = "none" THEN "rejected" ELSE r

\* rx after the handler has run through line 170
RxAccepted(r) ==
    IF r = "none" THEN "accepted"
    ELSE IF r = "rejected" THEN "accepted_after_rejected"
    ELSE r

\* the except clauses without the catch-all of line 149
CaughtWithoutCatchAll(k) == k \in {"BleakError", "TimeoutError"}

\* except BleakError / except TimeoutError / except Exception, lines 145-150
Caught(k) == k \in {"BleakError", "TimeoutError", "Exception"}

\* No await lies between the end of the async with block and the return of
\* async_update: nothing else runs while an update is on that way.
NoneReturning == \A f \in Entities : pc[f] # "except"

\* No await lies between the calls of async_update the host makes in one
\* tick and the first await of each: a suspended coroutine is resumed, and a
\* notification is delivered, only when none of the two is going on.
LoopIdle == NoneReturning /\ due = <<>>

----------------------------------------------------------------------------
(* BeurerBaseSensor.async_added_to_hass, lines 94-108 *)

\* datetime.fromisoformat on the texts the store is made to hold: the time, in
\* poll periods (a time before the start), or None where it raises ValueError
FromIsoFormat(text) == IF text = "2024-01-01T10:00:00" THEN Some(-1) ELSE None

\* a state string as a native value: the str itself, not a number
Str(text) == [str |-> text]

\* What async_get_last_state can return for an entity: None, or a state with
\* its state string and its last_measured attribute (None: no such attribute).
LastStates ==
    {None,
     Some([state |-> "58.12",       last_measured |-> Some("2024-01-01T10:00:00")]),
     Some([state |-> "unknown",     last_measured |-> Some("2024-01-01T10:00:00")]),
     Some([state |-> "20.0",        last_measured |-> Some("garbage")])}

\* lines 99-101: the state string is taken over unless it is unknown or unavailable
RestoresValue(last_state) ==
    /\ last_state # None
    /\ last_state[1].state \notin {"unknown", "unavailable"}

\* lines 104-108: the attribute is there, not empty, and fromisoformat parses it
RestoresTime(last_state) ==
    /\ last_state # None
    /\ last_state[1].last_measured # None
    /\ last_state[1].last_measured # Some("")
    /\ FromIsoFormat(last_state[1].last_measured[1]) # None

\* The last states the host has in store when it sets the entities up: the
\* same kind of last state for each of them.
Stores == {[e \in Entities |-> last_state] : last_state \in LastStates}

----------------------------------------------------------------------------
(* Initial state: the entities as BeurerBaseSensor.__init__ leaves them *)

Init ==
    /\ now = 0
    /\ ble_device = "none"
    /\ due = <<>>
    /\ pc = [e \in Entities |-> "new"]
    /\ exc = [e \in Entities |-> "none"]
    /\ connected = [e \in Entities |-> FALSE]
    /\ notifying = [e \in Entities |-> "never"]
    /\ calls = [e \in Entities |-> <<>>]
    /\ rx = [e \in Entities |-> NoRx]
    /\ _measurement_data = [e \in Entities |-> None]
    /\ _last_measurement_time = [e \in Entities |-> None]
    /\ _attr_native_value = [e \in Entities |-> None]
    /\ ha_state = [e \in Entities |-> None]
    /\ escaped = NoneEscaped
    /\ sessions = 0
    /\ tick_sessions = 0
    /\ last_states \in Stores
    /\ notification = None

\* The host adds an enabled entity, once, before it polls it; the entity takes
\* over the value and the time of measurement of its last state, if any. It
\* decodes nothing and writes no state.
async_added_to_hass(e) ==
    LET last_state == last_states[e] IN
    /\ NoneReturning
    /\ pc[e] = "new"
    /\ pc' = [pc EXCEPT ![e] = "idle"]
    /\ _attr_native_value' =
           IF RestoresValue(last_state)
           THEN [_attr_native_value EXCEPT ![e] = Some(Str(last_state[1].state))]
           ELSE _attr_native_value
    /\ _last_measurement_time' =
           IF RestoresTime(last_state)
           THEN [_last_measurement_time EXCEPT ![e] =
                    FromIsoFormat(last_state[1].last_measured[1])]
           ELSE _last_measurement_time
    /\ escaped' = NoneEscaped
    /\ UNCHANGED <<given, now, ble_device, due, exc, connected, notifying, calls,
                   rx, _measurement_data, ha_state, sessions, tick_sessions>>

----------------------------------------------------------------------------
(* The host: the poll tick *)

\* the entities followed: the first MaxPolled of async_setup_entry's list
Polled == {EntityOrder[i] : i \in 1..MaxPolled}

\* SCAN_INTERVAL elapses and no update of the previous tick is still running:
\* the host starts async_update of every polled entity, in the order of the
\* entities. d is what the host's scanner knows of the address at this moment.
\* A tick that finds the device connectable starts a session for each polled
\* entity: a run has such a tick while MaxSessions leaves room for them all.
Tick(d) ==
    /\ NoneReturning
    /\ now < MaxTicks
    /\ due = <<>>
    /\ \A e \in Polled : pc[e] = "idle"
    /\ d = "connectable" => sessions + Cardinality(Polled) <= MaxSessions
    /\ now' = now + 1
    /\ ble_device' = d
    /\ due' = SelectSeq(EntityOrder, LAMBDA e : e \in Polled)
    /\ tick_sessions' = 0
    /\ escaped' = NoneEscaped
    /\ UNCHANGED <<given, pc, exc, connected, notifying, calls, rx, stored,
                   sessions>>

----------------------------------------------------------------------------
(* BeurerBaseSensor.async_update *)

\* async_update without the test of line 123: a device that is found is
\* connected to, connectable or not
async_update_unchecked(e) ==
    /\ NoneReturning
    /\ due # <<>> /\ e = Head(due)
    /\ ble_device # "connectable"
    /\ due' = Tail(due)
    /\ IF ble_device = "none"
       THEN UNCHANGED <<pc, sessions, tick_sessions>>
       ELSE /\ sessions < MaxSessions
            /\ pc' = [pc EXCEPT ![e] = "connecting"]
            /\ sessions' = sessions + 1
            /\ tick_sessions' = tick_sessions + 1
    /\ escaped' = NoneEscaped
    /\ UNCHANGED <<given, now, ble_device, exc, connected, notifying, calls, rx,
                   stored>>

\* lines 114-125: device not found, or found and not connectable: return
async_update_not_ready(e) ==
    /\ NoneReturning
    /\ due # <<>> /\ e = Head(due)
    /\ ble_device # "connectable"
    /\ due' = Tail(due)
    /\ escaped' = NoneEscaped
    /\ UNCHANGED <<given, now, ble_device, pc, exc, connected, notifying, calls, rx,
                   stored, sessions, tick_sessions>>

\* async_update with the test of line 118 only: any device that is found is
\* connected to
async_update_connect_found(e) ==
    /\ NoneReturning
    /\ due # <<>> /\ e = Head(due)
    /\ ble_device # "none"
    /\ sessions < MaxSessions
    /\ due' = Tail(due)
    /\ pc' = [pc EXCEPT ![e] = "connecting"]
    /\ sessions' = sessions + 1
    /\ tick_sessions' = tick_sessions + 1
    /\ escaped' = NoneEscaped
    /\ UNCHANGED <<given, now, ble_device, exc, connected, notifying, calls, rx,
                   stored>>

\* lines 114-129: device found and connectable: BleakClient.__aenter__ starts
\* to connect
async_update_connect(e) ==
    /\ NoneReturning
    /\ due # <<>> /\ e = Head(due)
    /\ ble_device = "connectable"
    /\ sessions < MaxSessions
    /\ due' = Tail(due)
    /\ pc' = [pc EXCEPT ![e] = "connecting"]
    /\ sessions' = sessions + 1
    /\ tick_sessions' = tick_sessions + 1
    /\ escaped' = NoneEscaped
    /\ UNCHANGED <<given, now, ble_device, exc, connected, notifying, calls, rx, stored>>

\* line 129: the connection is established
connect_ok(e) ==
    /\ LoopIdle
    /\ pc[e] = "connecting"
    /\ pc' = [pc EXCEPT ![e] = "start_notify"]
    /\ connected' = [connected EXCEPT ![e] = TRUE]
    /\ calls' = [calls EXCEPT ![e] = Append(@, Call("connect", "", <<>>, TRUE))]
    /\ escaped' = NoneEscaped
    /\ UNCHANGED <<given, now, ble_device, due, exc, notifying, rx, stored, sessions, tick_sessions>>

\* line 129: connect raises (an error, the 10 s timeout, a cancellation):
\* __aenter__ has not returned, so __aexit__ does not run and nothing calls
\* disconnect; the exception meets the except clauses. Whether the attempt
\* has left a link open is up to the transport.
connect_raises(e) ==
    /\ LoopIdle
    /\ pc[e] = "connecting"
    /\ pc' = [pc EXCEPT ![e] = "except"]
    /\ exc' = [exc EXCEPT ![e] = "raised"]
    /\ \E open \in BOOLEAN : connected' = [connected EXCEPT ![e] = open]
    /\ calls' = [calls EXCEPT ![e] = Append(@, Call("connect", "", <<>>, FALSE))]
    /\ escaped' = NoneEscaped
    /\ UNCHANGED <<given, now, ble_device, due, notifying, rx, stored, sessions, tick_sessions>>

\* line 132
start_notify_ok(e) ==
    /\ LoopIdle
    /\ pc[e] = "start_notify"
    /\ pc' = [pc EXCEPT ![e] = "write_gatt_char"]
    /\ notifying' = [notifying EXCEPT ![e] = "subscribed"]
    /\ calls' = [calls EXCEPT ![e] =
                    Append(@, Call("start_notify", NOTIFY_CHAR_UUID, <<>>, TRUE))]
    /\ escaped' = NoneEscaped
    /\ UNCHANGED <<given, now, ble_device, due, exc, connected, rx, stored, sessions, tick_sessions>>

\* an awaited call of the body raises: the body is left for __aexit__
Raise(e, call) ==
    /\ pc' = [pc EXCEPT ![e] = "aexit"]
    /\ exc' = [exc EXCEPT ![e] = "raised"]
    /\ calls' = [calls EXCEPT ![e] = Append(@, call)]

start_notify_raises(e) ==
    /\ LoopIdle
    /\ pc[e] = "start_notify"
    /\ Raise(e, Call("start_notify", NOTIFY_CHAR_UUID, <<>>, FALSE))
    /\ escaped' = NoneEscaped
    /\ UNCHANGED <<given, now, ble_device, due, connected, notifying, rx, stored, sessions, tick_sessions>>

\* the write of lines 134-138 with the Init command in place of Sync
write_gatt_char_init(e) ==
    /\ LoopIdle
    /\ pc[e] = "write_gatt_char"
    /\ pc' = [pc EXCEPT ![e] = "sleep"]
    /\ calls' = [calls EXCEPT ![e] =
                    Append(@, Call("write_gatt_char", WRITE_CHAR_UUID, <<CMD_INIT, 0>>, TRUE))]
    /\ escaped' = NoneEscaped
    /\ UNCHANGED <<given, now, ble_device, due, exc, connected, notifying, rx, stored,
                   sessions, tick_sessions>>

\* lines 134-138: bytearray([CMD_SYNC, 0x00]), response=False
write_gatt_char_ok(e) ==
    /\ LoopIdle
    /\ pc[e] = "write_gatt_char"
    /\ pc' = [pc EXCEPT ![e] = "sleep"]
    /\ calls' = [calls EXCEPT ![e] =
                    Append(@, Call("write_gatt_char", WRITE_CHAR_UUID, <<CMD_SYNC, 0>>, TRUE))]
    /\ escaped' = NoneEscaped
    /\ UNCHANGED <<given, now, ble_device, due, exc, connected, notifying, rx, stored,
                   sessions, tick_sessions>>

write_gatt_char_raises(e) ==
    /\ LoopIdle
    /\ pc[e] = "write_gatt_char"
    /\ Raise(e, Call("write_gatt_char", WRITE_CHAR_UUID, <<CMD_SYNC, 0>>, FALSE))
    /\ escaped' = NoneEscaped
    /\ UNCHANGED <<given, now, ble_device, due, connected, notifying, rx, stored, sessions, tick_sessions>>

\* line 141: asyncio.sleep(5) returns when the 5 seconds are over
sleep_done(e) ==
    /\ LoopIdle
    /\ pc[e] = "sleep"
    /\ pc' = [pc EXCEPT ![e] = "stop_notify"]
    /\ rx' = [rx EXCEPT ![e] = NoRx]
    /\ escaped' = NoneEscaped
    /\ UNCHANGED <<given, now, ble_device, due, exc, connected, notifying, calls,
                   stored, sessions, tick_sessions>>

\* line 141: the task is cancelled while it sleeps: asyncio.sleep raises
\* CancelledError and the body is left for __aexit__
sleep_raises(e) ==
    /\ LoopIdle
    /\ pc[e] = "sleep"
    /\ pc' = [pc EXCEPT ![e] = "aexit"]
    /\ exc' = [exc EXCEPT ![e] = "cancelled"]
    /\ rx' = [rx EXCEPT ![e] = NoRx]
    /\ escaped' = NoneEscaped
    /\ UNCHANGED <<given, now, ble_device, due, connected, notifying, calls,
                   stored, sessions, tick_sessions>>

\* line 143
stop_notify_ok(e) ==
    /\ LoopIdle
    /\ pc[e] = "stop_notify"
    /\ pc' = [pc EXCEPT ![e] = "aexit"]
    /\ notifying' = [notifying EXCEPT ![e] = "unsubscribed"]
    /\ calls' = [calls EXCEPT ![e] =
                    Append(@, Call("stop_notify", NOTIFY_CHAR_UUID, <<>>, TRUE))]
    /\ escaped' = NoneEscaped
    /\ UNCHANGED <<given, now, ble_device, due, exc, connected, rx, stored, sessions, tick_sessions>>

stop_notify_raises(e) ==
    /\ LoopIdle
    /\ pc[e] = "stop_notify"
    /\ Raise(e, Call("stop_notify", NOTIFY_CHAR_UUID, <<>>, FALSE))
    /\ escaped' = NoneEscaped
    /\ UNCHANGED <<given, now, ble_device, due, connected, notifying, rx, stored, sessions, tick_sessions>>

\* the end of the async with block of line 129, reached by falling off the
\* body or by an exception in flight: BleakClient.__aexit__ disconnects
aexit(e) ==
    /\ LoopIdle
    /\ pc[e] = "aexit"
    /\ pc' = [pc EXCEPT ![e] = "except"]
    /\ connected' = [connected EXCEPT ![e] = FALSE]
    /\ calls' = [calls EXCEPT ![e] = Append(@, Call("disconnect", "", <<>>, TRUE))]
    /\ escaped' = NoneEscaped
    /\ UNCHANGED <<given, now, ble_device, due, exc, notifying, rx, stored, sessions, tick_sessions>>

\* the disconnect of __aexit__ raises: its exception replaces the one in
\* flight, if any, and meets the except clauses; whether the link is still
\* open is the transport's affair
aexit_raises(e) ==
    /\ LoopIdle
    /\ pc[e] = "aexit"
    /\ pc' = [pc EXCEPT ![e] = "except"]
    /\ exc' = [exc EXCEPT ![e] = "raised"]
    /\ \E open \in BOOLEAN : connected' = [connected EXCEPT ![e] = open]
    /\ calls' = [calls EXCEPT ![e] = Append(@, Call("disconnect", "", <<>>, FALSE))]
    /\ escaped' = NoneEscaped
    /\ UNCHANGED <<given, now, ble_device, due, notifying, rx, stored, sessions, tick_sessions>>

\* what leaving the try statement does: async_update is over, and the client
\* object and what is known of its session go with it
Return(e) ==
    /\ pc' = [pc EXCEPT ![e] = "idle"]
    /\ exc' = [exc EXCEPT ![e] = "none"]
    /\ connected' = [connected EXCEPT ![e] = FALSE]
    /\ notifying' = [notifying EXCEPT ![e] = "never"]
    /\ calls' = [calls EXCEPT ![e] = <<>>]

\* the async with block is left without an exception: no except clause runs
try_done(e) ==
    /\ pc[e] = "except"
    /\ exc[e] = "none"
    /\ Return(e)
    /\ escaped' = NoneEscaped
    /\ UNCHANGED <<given, now, ble_device, due, rx, stored, sessions, tick_sessions>>

\* lines 145-150: an exception of class k is in flight; the first clause that
\* matches logs it and async_update returns; an exception no clause matches
\* leaves async_update
except_clauses(e, k) ==
    /\ pc[e] = "except"
    /\ k \in InFlight(exc[e])
    /\ escaped' = [NoneEscaped EXCEPT ![e] = IF Caught(k) THEN "none" ELSE k]
    /\ Return(e)
    /\ UNCHANGED <<given, now, ble_device, due, rx, stored, sessions, tick_sessions>>

----------------------------------------------------------------------------
(* BeurerBaseSensor._notification_handler, lines 152-170 *)

\* the callback can run whenever the coroutine is suspended with the
\* subscription in place and the connection open
Deliverable(e) ==
    /\ pc[e] \in InBody
    /\ connected[e]
    /\ notifying[e] = "subscribed"

\* a handler that serves the whole device: a decoded frame is stored on
\* every entity of the address
_notification_handler_shared(e, data) ==
    /\ LoopIdle
    /\ Deliverable(e)
    /\ rx' = IF pc[e] # "sleep" THEN rx
             ELSE IF Accepts(data) THEN [rx EXCEPT ![e] = RxAccepted(@)]
             ELSE [rx EXCEPT ![e] = RxRejected(@)]
    /\ IF ~Accepts(data)
       THEN UNCHANGED stored
       ELSE LET md == Decode(data) IN
            /\ _measurement_data' = [f \in Entities |-> Some(md)]
            /\ _last_measurement_time' = [f \in Entities |-> Some(now)]
            /\ _attr_native_value' =
                   [f \in Entities |-> IF Writes(f, md) THEN md[f] ELSE _attr_native_value[f]]
            /\ ha_state' =
                   [f \in Entities |->
                       IF Writes(f, md) THEN StateOf(md[f], Some(now)) ELSE ha_state[f]]
    /\ escaped' = NoneEscaped
    /\ UNCHANGED <<given, now, ble_device, due, pc, exc, connected, notifying, calls,
                   sessions, tick_sessions>>

_notification_handler(e, data) ==
    /\ LoopIdle
    /\ Deliverable(e)
    /\ rx' = IF pc[e] # "sleep" THEN rx
             ELSE IF Accepts(data) THEN [rx EXCEPT ![e] = RxAccepted(@)]
             ELSE [rx EXCEPT ![e] = RxRejected(@)]
    /\ IF ~Accepts(data)
       THEN UNCHANGED stored
       ELSE LET md == Decode(data) IN
            /\ _measurement_data' = [_measurement_data EXCEPT ![e] = Some(md)]
            /\ _last_measurement_time' = [_last_measurement_time EXCEPT ![e] = Some(now)]
            /\ IF Writes(e, md)
               THEN /\ _attr_native_value' = [_attr_native_value EXCEPT ![e] = md[e]]
                    /\ ha_state' = [ha_state EXCEPT ![e] = StateOf(md[e], Some(now))]
               ELSE UNCHANGED <<_attr_native_value, ha_state>>
    /\ escaped' = NoneEscaped
    /\ UNCHANGED <<given, now, ble_device, due, pc, exc, connected, notifying, calls,
                   sessions, tick_sessions>>

----------------------------------------------------------------------------

Next ==
    \/ \E e \in Polled : async_added_to_hass(e)
    \/ \E d \in {"none", "unconnectable", "connectable"} : Tick(d)
    \/ \E e \in Entities : async_update_not_ready(e)
    \/ \E e \in Entities : async_update_connect(e)
    \/ \E e \in Entities : connect_ok(e)
    \/ \E e \in Entities : connect_raises(e)
    \/ \E e \in Entities : start_notify_ok(e)
    \/ \E e \in Entities : start_notify_raises(e)
    \/ \E e \in Entities : write_gatt_char_ok(e)
    \/ \E e \in Entities : write_gatt_char_raises(e)
    \/ \E e \in Entities : sleep_done(e)
    \/ \E e \in Entities : sleep_raises(e)
    \/ \E e \in Entities : stop_notify_ok(e)
    \/ \E e \in Entities : stop_notify_raises(e)
    \/ \E e \in Entities : aexit(e)
    \/ \E e \in Entities : aexit_raises(e)
    \/ \E e \in Entities : try_done(e)
    \/ \E e \in Entities, k \in Raised : except_clauses(e, k)
    \/ \E e \in Entities, data \in Frames : _notification_handler(e, data)

Spec == Init /\ [][Next]_vars

----------------------------------------------------------------------------
(* Scheduling: a connect attempt ends within its 10 s timeout (line 129),   *)
(* the timer of asyncio.sleep fires (line 141), the code between the end of *)
(* the async with block and the return has no await, and the host starts    *)
(* the updates of a tick and fires the next tick once they are over. The    *)
(* other transport calls are awaited without a timeout: nothing in the code *)
(* makes them return or raise, and a call that does neither keeps its       *)
(* coroutine suspended for good.                                            *)

\* the steps of the coroutine of entity e that are bound to happen: the end
\* of the connect attempt, the end of the sleep, the way out of the try
\* statement
TimedStep(e) ==
    \/ connect_ok(e) \/ connect_raises(e)
    \/ sleep_done(e)
    \/ try_done(e)
    \/ \E k \in Raised : except_clauses(e, k)

\* the steps that wait for a transport call awaited without a timeout (lines
\* 132, 134, 143 and the disconnect of __aexit__): they may never happen
UntimedStep(e) ==
    \/ start_notify_ok(e) \/ start_notify_raises(e)
    \/ write_gatt_char_ok(e) \/ write_gatt_char_raises(e)
    \/ stop_notify_ok(e) \/ stop_notify_raises(e)
    \/ aexit(e) \/ aexit_raises(e)

\* the host adds the next of its enabled entities
AddStep ==
    \E e \in Polled : async_added_to_hass(e)

\* the host starts the update of the next entity that is due
HostStep == \E e \in Entities : async_update_not_ready(e) \/ async_update_connect(e)

\* the host's timer fires
TickStep == \E d \in {"none", "unconnectable", "connectable"} : Tick(d)

\* the buffers the scale sends here: one the handler decodes, one it rejects
FairFrames == {FrameA, FrameShort}

FairNext ==
    \/ AddStep
    \/ TickStep
    \/ HostStep
    \/ \E e \in Entities : TimedStep(e)
    \/ \E e \in Entities : UntimedStep(e)
    \/ \E e \in Entities : sleep_raises(e)
    \/ \E e \in Entities, data \in FairFrames : _notification_handler(e, data)

\* the store here: each entity has a last state that it takes over whole
FairStore ==
    [e \in Entities |->
        Some([state |-> "58.12", last_measured |-> Some("2024-01-01T10:00:00")])]

FairInit == Init /\ last_states = FairStore

FairSpec ==
    /\ FairInit /\ [][FairNext]_vars
    /\ \A e \in Entities : WF_vars(TimedStep(e))
    /\ WF_vars(AddStep)
    /\ WF_vars(HostStep)
    /\ WF_vars(TickStep)

----------------------------------------------------------------------------
(* The notification handler over a range of buffers: one entity is in the   *)
(* wait of line 141 and the scale answers its Sync command with one buffer. *)

\* longest buffer the scale is made to send
MaxLen == 21

BufferLengths == {0, 1, 8, 19, 20, MaxLen}

BufferHeaders == {247, 246, 0}

\* data[2], data[3]
WeightPairs == {<<0, 0>>, <<180, 22>>, <<255, 0>>, <<0, 1>>, <<255, 255>>}

PercentBytes == {0, 50, 254, 255}

\* data[4..7]: one byte singled out among three equal ones
PercentQuads ==
    {[i \in 1..4 |-> IF i = k THEN v ELSE w] :
        k \in 1..4, v \in PercentBytes, w \in PercentBytes}

\* the first n bytes of: header, 0, weight pair, percentage bytes, zeros
Buffer(h, w, q, n) == SubSeq(<<h, 0>> \o w \o q \o Zeros(MaxLen - 8), 1, n)

Buffers ==
    {Buffer(h, w, q, n) :
        h \in BufferHeaders, w \in WeightPairs, q \in PercentQuads,
        n \in BufferLengths}

\* Entity e, the only enabled entity of the device, has connected, subscribed
\* and written Sync in the current tick and is in its wait; with prior it
\* decoded FrameB in the tick before. The scale is about to send buffer b.
CodecInit ==
    \E e \in Entities, b \in Buffers, prior \in BOOLEAN :
        /\ now = IF prior THEN 2 ELSE 1
        /\ ble_device = "connectable"
        /\ due = <<>>
        /\ pc = [f \in Entities |-> IF f = e THEN "sleep" ELSE "new"]
        /\ exc = [f \in Entities |-> "none"]
        /\ connected = [f \in Entities |-> f = e]
        /\ notifying = [f \in Entities |-> IF f = e THEN "subscribed" ELSE "never"]
        /\ calls = [f \in Entities |->
                      IF f = e
                      THEN <<Call("connect", "", <<>>, TRUE),
                             Call("start_notify", NOTIFY_CHAR_UUID, <<>>, TRUE),
                             Call("write_gatt_char", WRITE_CHAR_UUID, <<CMD_SYNC, 0>>, TRUE)>>
                      ELSE <<>>]
        /\ rx = [f \in Entities |-> NoRx]
        /\ _measurement_data =
               [f \in Entities |-> IF f = e /\ prior THEN Some(Decode(FrameB)) ELSE None]
        /\ _last_measurement_time =
               [f \in Entities |-> IF f = e /\ prior THEN Some(1) ELSE None]
        /\ _attr_native_value =
               [f \in Entities |-> IF f = e /\ prior THEN Decode(FrameB)[f] ELSE None]
        /\ ha_state =
               [f \in Entities |->
                   IF f = e /\ prior THEN StateOf(Decode(FrameB)[f], Some(1)) ELSE None]
        /\ escaped = NoneEscaped
        /\ sessions = IF prior THEN 2 ELSE 1
        /\ tick_sessions = 1
        /\ last_states = [f \in Entities |-> None]
        /\ notification = Some([to |-> e, data |-> b])

\* the transport calls the handler of the waiting entity with the buffer
notify ==
    /\ notification # None
    /\ rx[notification[1].to] = NoRx
    /\ _notification_handler(notification[1].to, notification[1].data)

CodecNext == notify

CodecSpec == CodecInit /\ [][CodecNext]_vars

----------------------------------------------------------------------------
(* Properties *)

\* successful connect calls, and disconnect calls, logged for the session of e
Opened(e) == Cardinality({i \in 1..Len(calls[e]) :
                 calls[e][i].call = "connect" /\ calls[e][i].ok})

Closed(e) == Cardinality({i \in 1..Len(calls[e]) : calls[e][i].call = "disconnect"})

\* a call of this name, successful or not, is logged for the session of e
Called(e, name) == \E i \in 1..Len(calls[e]) : calls[e][i].call = name

\* the session of e has ended: its try statement is being left
Ended(e) == pc[e] = "except"

\* an exception is in flight in the async_update of e
Raising(e) == exc[e] # "none"

\* the field of the stored measurement that entity e reports
FieldOf(e) == _measurement_data[e][1][e]

\* a notification the frame format rules out: under 20 bytes, or not led by 0xF7
Malformed(data) == Len(data) < 20 \/ data[1] # 247

\* C1: for one address at most one session (connect .. disconnect) is in flight
\* at any time, across all ticks and all the entities of the address.
C1_OneSessionInFlight ==
    Cardinality({e \in Entities : pc[e] \in InSession}) <= 1

\* C2 as stated: once a session has ended, by whatever exit path, its
\* connection is not open, and disconnect has run exactly once for every
\* connection that was opened; a connect that raises leaves no open connection
\* and no disconnect to run.
C2_CleanupOnEveryExit ==
    \A e \in Entities :
        /\ Opened(e) <= 1
        /\ Closed(e) <= Opened(e)
        /\ Ended(e) => (~connected[e] /\ Closed(e) = Opened(e))

\* C3: a session that has subscribed its handler has unsubscribed it when the
\* session ends, whatever the exit path.
C3_UnsubscribedOnEveryExit ==
    \A e \in Entities : Ended(e) => notifying[e] # "subscribed"

\* C4: in one poll tick the session protocol runs at most once for the
\* address, not once per entity.
C4_OneSessionPerTick == tick_sessions <= 1

\* C5: in a poll tick in which the device is not found or not connectable, no
\* entity attempts a connect, and no step changes a stored measurement, its
\* timestamp or a reported value.
C5_NotReadyTickKeepsSnapshot ==
    [][(now' >= 1 /\ ble_device' # "connectable") =>
           /\ \A e \in Entities : pc'[e] \in {"new", "idle"}
           /\ sessions' = sessions
           /\ stored' = stored]_vars

\* C5 case: ticks 1 and 2 found the device not ready (no session ran, nothing
\* was reported), tick 3 found it ready and the session of tick 3 has reported
\* a value
C5_Witness ==
    /\ now = 3
    /\ sessions = tick_sessions
    /\ \E e \in Entities : ha_state[e] # None /\ ha_state[e][1].last_measured = Some(3)

\* what a step of a session may do to what its entity stores and reports: a
\* value, once known, never becomes unknown, and only the handler decoding a
\* valid frame changes anything, so that a connect error, a transport error, a
\* cancellation, the end of the wait and the except clauses change nothing
KeepsSnapshot(e) ==
    /\ _attr_native_value[e] # None => _attr_native_value'[e] # None
    /\ (pc[e] # "new" /\ StoredOf(e)' # StoredOf(e)) =>
           /\ Deliverable(e)
           /\ pc'[e] = pc[e] /\ exc'[e] = exc[e]
           /\ \E data \in Frames :
                  /\ ~Malformed(data)
                  /\ _measurement_data'[e] = Some(Decode(data))

\* C6: when a session fails (connect error or timeout, transport error while
\* subscribing, writing or in the cleanup, no valid frame within the wait),
\* no exception of the failure leaves async_update: what leaves is at most
\* the cancellation of the task (asyncio.CancelledError, no failure of the
\* session), at the end of the session. On every step a reported value, once
\* known, never becomes unknown, and the only step of a session that changes
\* what an entity stores or reports is its handler decoding a valid frame.
C6_FailureKeepsSnapshot ==
    [][\A e \in Entities :
           /\ escaped'[e] \notin {"BleakError", "TimeoutError", "Exception"}
           /\ escaped'[e] # "none" => (Ended(e) /\ Raising(e))
           /\ KeepsSnapshot(e)]_vars

\* C6 case: a session that decoded nothing in this tick was left by an
\* exception of its write and has been disconnected, and the value decoded
\* and reported in an earlier tick is still there
C6_Witness ==
    \E e \in Entities :
        /\ Ended(e) /\ exc[e] = "raised"
        /\ Len(calls[e]) = 4 /\ ~calls[e][3].ok /\ Closed(e) = 1
        /\ _measurement_data[e] # None
        /\ _attr_native_value[e] # None
        /\ _last_measurement_time[e] # Some(now)

\* C7: once a frame has been decoded, the value an entity reports is the
\* value of its field in the stored measurement (the latest frame), absent
\* when that frame marks the field absent.
C7_ValueFromLatestFrame ==
    \A e \in Entities :
        _measurement_data[e] # None => _attr_native_value[e] = FieldOf(e)

\* C8: the first valid frame ends the wait at once: no session is still in
\* its wait after its handler has decoded a frame during that wait.
C8_FirstFrameEndsWait ==
    \A e \in Entities :
        pc[e] = "sleep" => rx[e] \notin {"accepted", "accepted_after_rejected"}

\* C9: once the wait window has expired, a notification delivered during or
\* after cleanup changes nothing the entity stores or reports.
C9_LateNotificationIgnored ==
    [][\A e \in Entities :
           pc[e] \in {"stop_notify", "aexit", "except"} =>
               StoredOf(e)' = StoredOf(e)]_vars

\* C10: a malformed notification handled during the wait leaves the session
\* waiting, unfailed and subscribed, and changes nothing stored; a valid frame
\* handled during the wait, also after a malformed one, is decoded, stamped
\* with the current time and stored.
C10_MalformedKeepsWaiting ==
    [][\A e \in Entities : \A data \in Frames :
           (pc[e] = "sleep" /\ _notification_handler(e, data)) =>
               IF Malformed(data)
               THEN /\ pc'[e] = "sleep" /\ exc'[e] = "none"
                    /\ connected'[e] /\ notifying'[e] = "subscribed"
                    /\ StoredOf(e)' = StoredOf(e)
               ELSE /\ _measurement_data'[e] = Some(Decode(data))
                    /\ _last_measurement_time'[e] = Some(now)]_vars

\* C10 case: within one wait the handler has rejected a malformed
\* notification and then decoded a valid frame
C10_Witness ==
    \E e \in Entities :
        /\ pc[e] = "sleep"
        /\ rx[e] = "accepted_after_rejected"
        /\ _last_measurement_time[e] = Some(now)

----------------------------------------------------------------------------
(* Properties of the decoder, under CodecSpec *)

\* the entity the buffer goes to, and the buffer
Receiver == notification[1].to

Sent == notification[1].data

\* the receiver's handler has run through line 170 on the buffer
Decoded == notification # None /\ rx[Receiver] = "accepted"

\* the two ways the frame format rules a buffer out
TooShort(data) == Len(data) < 20

BadHeader(data) == Len(data) >= 20 /\ data[1] # 247

\* n as two bytes, least significant first
ToBytesLittle(n) == <<n % 256, (n \div 256) % 256>>

\* a 20-byte frame led by 0xF7 with the bytes lo, hi at offsets 2, 3
WeightFrame(lo, hi) == <<247, 0, lo, hi>> \o Zeros(16)

\* a 20-byte frame led by 0xF7 with byte b at offset i (4..7)
PercentFrame(i, b) == [j \in 1..20 |-> IF j = 1 THEN 247 ELSE IF j = i + 1 THEN b ELSE 0]

\* the measurement key decoded from offset i
KeyAt(i) == EntityOrder[i - 2]

\* entity e holds no number made from the byte 0xFF
NoSentinel(e) ==
    /\ _attr_native_value[e] # Some([num |-> 255, den |-> 10])
    /\ ha_state[e] # None => ha_state[e][1].state # Some([num |-> 255, den |-> 10])
    /\ _measurement_data[e] # None =>
           \A k \in Entities \ {"weight"} :
               _measurement_data[e][1][k] # Some([num |-> 255, den |-> 10])

\* C11: the handler decodes a buffer exactly when it has at least 20 bytes and
\* its first byte is 0xF7. A buffer under 20 bytes is rejected by its length,
\* whatever it holds (an empty one included); a buffer of 20 bytes or more
\* with another first byte is rejected by its header; a rejected buffer leaves
\* every stored measurement, timestamp, reported value and state as it was.
C11_AcceptsIffLongAndMarked ==
    [][notification # None =>
           IF TooShort(Sent) \/ BadHeader(Sent)
           THEN /\ rx'[Receiver] = "rejected"
                /\ stored' = stored
           ELSE /\ rx'[Receiver] = "accepted"
                /\ _measurement_data'[Receiver] # _measurement_data[Receiver]
                /\ _last_measurement_time'[Receiver] = Some(now)]_vars

\* C11 case: a buffer of 19 bytes led by 0xF7 has been rejected by an entity
\* that holds the measurement of an earlier tick
C11_Witness ==
    /\ notification # None
    /\ rx[Receiver] = "rejected"
    /\ Len(Sent) = 19 /\ Sent[1] = 247
    /\ _measurement_data[Receiver] = Some(Decode(FrameB))

\* all 65536 byte pairs through the decoder
AllWeightsLittleEndian ==
    \A lo \in 0..255, hi \in 0..255 :
        LET weight == Decode(WeightFrame(lo, hi)).weight IN
        /\ Accepts(WeightFrame(lo, hi))
        /\ weight = Some([num |-> lo + 256 * hi, den |-> 100])
        /\ ToBytesLittle(weight[1].num) = <<lo, hi>>

\* C12: the weight of an accepted frame, in hundredths of a kilogram, is
\* data[2] + 256 * data[3], and writing it back as two bytes, least significant
\* first, gives data[2], data[3]: for all 65536 byte pairs through the
\* decoder, and for the buffers sent through the handler in what the entity
\* stores and the weight entity reports.
C12_WeightLittleEndian ==
    /\ AllWeightsLittleEndian
    /\ Decoded =>
           LET weight == _measurement_data[Receiver][1].weight IN
           /\ weight = Some([num |-> Sent[3] + 256 * Sent[4], den |-> 100])
           /\ ToBytesLittle(weight[1].num) = <<Sent[3], Sent[4]>>
           /\ Receiver = "weight" => _attr_native_value[Receiver] = weight

\* C12 case: the weight entity has decoded a frame whose weight bytes are
\* B4 16 and reports 58.12
C12_Witness ==
    /\ Decoded
    /\ Receiver = "weight"
    /\ <<Sent[3], Sent[4]>> = <<180, 22>>
    /\ _attr_native_value["weight"] = Some([num |-> 5812, den |-> 100])

\* all 256 bytes at each of the four offsets through the decoder
AllBytesDecodeAsPercent ==
    \A i \in 4..7, b \in 0..255 :
        Decode(PercentFrame(i, b))[KeyAt(i)] =
            IF b = 255 THEN None ELSE Some([num |-> b, den |-> 10])

\* C13: at each of the offsets 4, 5, 6, 7 of an accepted frame the byte 0xFF
\* decodes to absent and every byte 0..254 to that many tenths of a percent,
\* for all 256 bytes through the decoder and for the buffers sent through the
\* handler; and no entity ever stores or reports 25.5 made from a byte 0xFF.
C13_SentinelIsAbsent ==
    /\ AllBytesDecodeAsPercent
    /\ Decoded =>
           \A i \in 4..7 :
               _measurement_data[Receiver][1][KeyAt(i)] =
                   IF Sent[i + 1] = 255 THEN None
                   ELSE Some([num |-> Sent[i + 1], den |-> 10])
    /\ \A e \in Entities : NoSentinel(e)

\* C13 case: the bone mass entity, which reported 1.2 before, has decoded a
\* frame with 0xFF at offset 7 and 0xFE at the other three offsets
C13_Witness ==
    /\ Decoded
    /\ Receiver = "bone_mass"
    /\ <<Sent[5], Sent[6], Sent[7], Sent[8]>> = <<254, 254, 254, 255>>
    /\ _measurement_data["bone_mass"][1].bone_mass = None
    /\ _measurement_data["bone_mass"][1].muscle_mass = Some([num |-> 254, den |-> 10])
    /\ _attr_native_value["bone_mass"] = Some([num |-> 12, den |-> 10])

\* what an entity stores after decoding F7 00 B4 16 FF 32 FF FF + 12 zero
\* bytes, with the weight w in hundredths of a kilogram
FrameADecodedWith(w) ==
    \A e \in Entities :
        (Decoded /\ Receiver = e /\ Sent = FrameA) =>
            _measurement_data[e] =
                Some([weight      |-> Some([num |-> w, den |-> 100]),
                      body_fat    |-> None,
                      body_water  |-> Some([num |-> 50, den |-> 10]),
                      muscle_mass |-> None,
                      bone_mass   |-> None])

\* C14 as stated: the frame F7 00 B4 16 FF 32 FF FF + 12 zero bytes decodes
\* to weight 58.04 kg, body fat absent, body water 5.0 %, muscle mass absent,
\* bone mass absent.
C14_FrameAWeighs5804 == FrameADecodedWith(5804)

\* C14 amended: the frame F7 00 B4 16 FF 32 FF FF + 12 zero bytes decodes to
\* weight 58.12 kg (0x16B4 = 5812 hundredths), body fat absent, body water
\* 5.0 %, muscle mass absent, bone mass absent.
C14_FrameAWeighs5812 == FrameADecodedWith(5812)

\* C14 case: an entity without an earlier measurement has decoded the frame
C14_Witness ==
    /\ Decoded
    /\ Sent = FrameA
    /\ now = 1
    /\ _last_measurement_time[Receiver] = Some(1)

----------------------------------------------------------------------------
(* Properties of the session, continued *)

\* C15: an entity leaves idle only by starting to connect, and only when the
\* scanner, asked in this same tick, has found the device and found it
\* connectable; whenever a connect call has been made in the current session
\* of an entity, the device was found connectable in the tick of that session.
C15_ConnectOnlyWhenReady ==
    [][\A e \in Entities :
           /\ (pc[e] = "idle" /\ pc'[e] # "idle") =>
                  /\ pc'[e] = "connecting"
                  /\ ble_device = "connectable"
                  /\ now' = now /\ ble_device' = ble_device
           /\ (pc'[e] \in InSession \/ Called(e, "connect")') =>
                  ble_device' = "connectable"]_vars

\* C15 case: the tick before found the device not ready and made no connect
\* call; in this tick it is connectable and an entity has connected
C15_Witness ==
    /\ now = 2
    /\ sessions = tick_sessions
    /\ ble_device = "connectable"
    /\ \E e \in Entities : Called(e, "connect") /\ connected[e]

\* the update of e is due in a tick that found the device connectable
CanStart(e) ==
    /\ \E i \in 1..Len(due) : due[i] = e
    /\ ble_device = "connectable"
    /\ sessions + Len(due) <= MaxSessions

\* the handler of e has decoded a frame during the current wait
DecodedInWait(e) == pc[e] = "sleep" /\ rx[e] \in {"accepted", "accepted_after_rejected"}

\* the session of e has written Sync and is in its wait or in the cleanup
\* after it, and its handler has decoded nothing in this tick
WaitingUndecoded(e) ==
    /\ pc[e] \in {"sleep", "stop_notify", "aexit"}
    /\ \E i \in 1..Len(calls[e]) : calls[e][i].call = "write_gatt_char" /\ calls[e][i].ok
    /\ _last_measurement_time[e] # Some(now)

\* C16: the wait of a session ends, frame or no frame (no entity stays in
\* its wait for ever), and a session that has decoded nothing reaches the
\* cleanup and terminates (it does not stay in its wait or in its cleanup
\* for ever). The wait is left for the unsubscribe of the cleanup or, when it is
\* cancelled, for the disconnect of the cleanup, and async_update returns
\* with disconnect called for an opened connection. Whatever changes what an
\* entity stores stamps it with the current tick, so that a session whose
\* handler decoded nothing leaves the stored measurement, timestamp, value
\* and state as they were.
C16_WaitIsBounded ==
    /\ \A e \in Entities : []<>(pc[e] # "sleep")
    /\ \A e \in Entities : []<>(~WaitingUndecoded(e))
    /\ [][\A e \in Entities :
              /\ (pc[e] = "sleep" /\ pc'[e] # "sleep") =>
                     \/ pc'[e] = "stop_notify" /\ exc'[e] = "none"
                     \/ pc'[e] = "aexit" /\ exc'[e] = "cancelled"
              /\ (Ended(e) /\ pc'[e] = "idle") => Closed(e) = Opened(e)
              /\ (pc[e] # "new" /\ StoredOf(e)' # StoredOf(e)) =>
                     /\ pc[e] \in InBody /\ pc'[e] = pc[e]
                     /\ _last_measurement_time'[e] = Some(now)]_vars

\* C17: whatever the outcome of a session, its entity becomes idle again; in
\* a tick that finds the device connectable every entity that is due starts
\* a session, whatever happened before; the ticks go on until the horizon
\* of the model (its last tick) is reached; and a valid frame handled during
\* a wait is stored with the time of the current tick, and reported with it
\* when it carries the field of the entity.
C17_NoFailureIsFatal ==
    /\ \A e \in Polled : []<>(pc[e] = "idle")
    /\ \A e \in Entities : []<>(~CanStart(e))
    /\ [][\A e \in Entities :
              (CanStart(e) /\ ~CanStart(e)') => pc'[e] = "connecting"]_vars
    /\ <>(now = MaxTicks)
    /\ [](\A e \in Entities :
              DecodedInWait(e) =>
                  /\ _measurement_data[e] # None
                  /\ _last_measurement_time[e] = Some(now)
                  /\ FieldOf(e) # None => ha_state[e] = StateOf(FieldOf(e), Some(now)))

\* the place of a transport call in the order of a session
Rank(name) ==
    CHOOSE i \in 1..5 :
        <<"connect", "start_notify", "write_gatt_char", "stop_notify", "disconnect">>[i] = name

\* C18: the transport calls of a session come in the order connect,
\* start_notify, write_gatt_char, stop_notify, disconnect, each at most once.
\* The write comes third, after a connect and a start_notify that returned;
\* it goes to the write characteristic, carries exactly the bytes F9 00 and
\* asks for no response. The wait and the unsubscribe come only after a write
\* that returned, and the disconnect comes last.
C18_SessionOrder ==
    \A e \in Entities :
        /\ \A i, j \in 1..Len(calls[e]) :
               i < j => Rank(calls[e][i].call) < Rank(calls[e][j].call)
        /\ \A i \in 1..Len(calls[e]) :
               /\ calls[e][i].call = "write_gatt_char" =>
                      /\ i = 3
                      /\ calls[e][1].call = "connect" /\ calls[e][1].ok
                      /\ calls[e][2].call = "start_notify" /\ calls[e][2].ok
                      /\ calls[e][2].char = "0000fff4-0000-1000-8000-00805f9b34fb"
                      /\ calls[e][i].char = "0000fff1-0000-1000-8000-00805f9b34fb"
                      /\ calls[e][i].data = <<249, 0>>
                      /\ calls[e][i].response = FALSE
               /\ calls[e][i].call = "stop_notify" =>
                      /\ i = 4
                      /\ calls[e][3].call = "write_gatt_char" /\ calls[e][3].ok
               /\ calls[e][i].call = "disconnect" =>
                      /\ i = Len(calls[e])
                      /\ calls[e][1].ok
        /\ pc[e] \in {"sleep", "stop_notify"} =>
               /\ Len(calls[e]) = 3
               /\ calls[e][3].call = "write_gatt_char" /\ calls[e][3].ok

\* C18 case: a session has run from connect to disconnect without an exception
C18_Witness ==
    \E e \in Entities :
        /\ Ended(e) /\ ~Raising(e)
        /\ Len(calls[e]) = 5
        /\ calls[e][5].call = "disconnect" /\ calls[e][5].ok

\* a step changes what at most one entity stores or reports, and the handler
\* of one entity leaves the other four as they were
OneEntityAtAStep(e) ==
    /\ StoredOf(e)' # StoredOf(e) =>
           \A f \in Entities \ {e} : StoredOf(f)' = StoredOf(f)
    /\ \A data \in Frames :
           _notification_handler(e, data) =>
               \A f \in Entities \ {e} : StoredOf(f)' = StoredOf(f)

\* a step that changes what e stores or reports is the handler of e decoding
\* a frame on the connection of e: e is inside its own session, connected and
\* subscribed, and stays where it is
OwnFrame(e) ==
    /\ Deliverable(e) /\ pc'[e] = pc[e]
    /\ _last_measurement_time'[e] = Some(now)

\* C19 as stated: a step changes what at most one entity stores or reports,
\* and the step is the handler of that entity decoding a frame on its own
\* connection. The handler of one entity leaves the other four as they were.
C19_EntityOwnsItsMeasurement ==
    [][stored' # stored =>
           \A e \in Entities :
               /\ OneEntityAtAStep(e)
               /\ StoredOf(e)' # StoredOf(e) => OwnFrame(e)]_vars

\* C19 amended: a step changes what at most one entity stores or reports, and
\* the handler of one entity leaves the other four as they were. The step is
\* the handler of that entity decoding a frame on its own connection, or it
\* is the entity being added to the host, once and before its first poll,
\* taking over the state string and the time of its own last state: that step
\* changes neither the stored measurement nor the state written to the host.
C19_OwnFrameOrOwnRestore ==
    [][stored' # stored =>
           \A e \in Entities :
               /\ OneEntityAtAStep(e)
               /\ StoredOf(e)' # StoredOf(e) =>
                      \/ OwnFrame(e)
                      \/ /\ pc[e] = "new" /\ pc'[e] = "idle" /\ now = 0
                         /\ _measurement_data'[e] = _measurement_data[e]
                         /\ ha_state'[e] = ha_state[e]
                         /\ \E last_state \in LastStates :
                                /\ RestoresValue(last_state) \/ RestoresTime(last_state)
                                /\ _attr_native_value'[e] \in
                                       {_attr_native_value[e],
                                        Some(Str(last_state[1].state))}]_vars

\* C19 case: two entities are connected and subscribed in the same tick; one
\* has decoded a frame and reports it, the other still has the value and the
\* time it took over from its last state and nothing else
C19_Witness ==
    \E e, f \in Entities :
        /\ e # f
        /\ Deliverable(e) /\ Deliverable(f)
        /\ _last_measurement_time[e] = Some(now) /\ _measurement_data[e] # None
        /\ StoredOf(f) = <<None, Some(-1), Some(Str("58.12")), None>>

====
